---- MODULE Spec2Model ----
(***************************************************************************)
(* Model of airtable_mcp.client.AirtableClient: the lazily created HTTP    *)
(* session, the five REST operations, close(), and error normalisation.    *)
(* Coroutines are tasks of one asyncio event loop: a task runs without      *)
(* interruption from one await that suspends to the next.  The awaits that  *)
(* suspend are the HTTP request (client.get/post/patch) and aclose();       *)
(* `await self._get_client()` contains no await and never suspends.         *)
(***************************************************************************)
EXTENDS Integers, Sequences, FiniteSets, TLC

\* Number of coroutines that may be in flight on one AirtableClient.
NumTasks == 2
\* Cap on the number of httpx.AsyncClient objects constructed in one run.
MaxSessions == 3

Tasks == 1..NumTasks
Sessions == 1..MaxSessions
\* self._client is None
None == 0

(***************************************************************************)
(* Values.                                                                  *)
(***************************************************************************)
\* Optional strings (str | None).
NoneStr == [some |-> FALSE, v |-> ""]
Some(s) == [some |-> TRUE, v |-> s]
\* Python truthiness of a str | None: None and "" are falsy.
Truthy(x) == x.some /\ x.v # ""
\* Python `a or b`.
PyOr(a, b) == IF Truthy(a) THEN a ELSE b

\* JSON values, one record shape for all kinds.
JNull == [s |-> "", t |-> "null", n |-> 0, items |-> <<>>, kv |-> <<>>]
JStr(s) == [s |-> s, t |-> "str", n |-> 0, items |-> <<>>, kv |-> <<>>]
JNum(n) == [s |-> "", t |-> "num", n |-> n, items |-> <<>>, kv |-> <<>>]
JList(items) == [s |-> "", t |-> "list", n |-> 0, items |-> items, kv |-> <<>>]
\* kv is a sequence of <<key, value>> pairs with distinct keys.
JDict(kv) == [s |-> "", t |-> "dict", n |-> 0, items |-> <<>>, kv |-> kv]

HasKey(j, k) == \E i \in 1..Len(j.kv) : j.kv[i][1] = k
Lookup(j, k) == j.kv[CHOOSE i \in 1..Len(j.kv) : j.kv[i][1] = k][2]

\* The outcome of evaluating a Python expression: a value or a raised exception.
Ok(v) == [ok |-> TRUE, val |-> v, exc |-> "", msg |-> <<>>]
Raise(e, m) == [ok |-> FALSE, val |-> JNull, exc |-> e, msg |-> m]

\* x.get(k, default): only a dict has .get
dict_get(j, k, default) ==
    IF j.t = "dict"
    THEN Ok(IF HasKey(j, k) THEN Lookup(j, k) ELSE default)
    ELSE Raise("AttributeError", <<>>)

\* x[k] for a string key k
subscript_key(j, k) ==
    IF j.t = "dict"
    THEN IF HasKey(j, k) THEN Ok(Lookup(j, k)) ELSE Raise("KeyError", <<k>>)
    ELSE Raise("TypeError", <<>>)

\* x[0]; a JSON dict has only string keys, so the integer key 0 is never present.
\* (x a str is outside the bodies considered here.)
subscript_zero(j) ==
    CASE j.t = "list" -> IF Len(j.items) > 0 THEN Ok(j.items[1])
                                             ELSE Raise("IndexError", <<>>)
      [] j.t = "dict" -> Raise("KeyError", <<"0">>)
      [] OTHER -> Raise("TypeError", <<>>)

\* Decimal formatting of a non-negative int, one digit per element.
DigitChars == <<"0", "1", "2", "3", "4", "5", "6", "7", "8", "9">>
RECURSIVE Digits(_)
Digits(n) == IF n < 10 THEN <<DigitChars[n + 1]>>
             ELSE Digits(n \div 10) \o <<DigitChars[(n % 10) + 1]>>

\* f"{x}" of a JSON scalar, as message segments.
Format(j) ==
    CASE j.t = "str" -> <<j.s>>
      [] j.t = "num" -> Digits(j.n)
      [] OTHER -> <<"None">>

\* A message contains the segment sequence `part` contiguously.
Contains(msg, part) ==
    \E i \in 1..(Len(msg) - Len(part) + 1) :
        SubSeq(msg, i, i + Len(part) - 1) = part

(***************************************************************************)
(* HTTP responses and requests.                                             *)
(***************************************************************************)
\* A response body: its raw text and, when the text is JSON, its parse.
Body(text, is_json, json) == [text |-> text, is_json |-> is_json, json |-> json]
\* What `await client.get/post/patch(...)` produces: a response, or a
\* transport failure (connection error, timeout) raised by the await.
Resp(status, body) == [status |-> status, body |-> body, fail |-> FALSE]
TransportFailure == [status |-> 0, body |-> Body("", FALSE, JNull), fail |-> TRUE]

NoBody == JNull
Request(method, path, params, has_json, json) ==
    [json |-> json, method |-> method, path |-> path, params |-> params,
     has_json |-> has_json]
NoRequest == Request("", <<>>, <<>>, FALSE, NoBody)

\* Optional int (int | None)
NoneInt == [some |-> FALSE, n |-> 0]
SomeInt(n) == [some |-> TRUE, n |-> n]

\* response.json()
response_json(r) ==
    IF r.body.is_json THEN Ok(r.body.json) ELSE Raise("JSONDecodeError", <<>>)

\* response.is_success
is_success(status) == 200 <= status /\ status <= 299

MsgConfig == <<"AIRTABLE_API_KEY environment variable is required. ",
               "Get your API key at https://airtable.com/create/tokens">>
Msg401 == <<"Invalid API key. Check your AIRTABLE_API_KEY.">>
Msg403 == <<"Permission denied. Your API key lacks access to this resource.">>
Msg404 == <<"Not found. Check that the base/table/record ID is correct.">>
Msg429 == <<"Rate limited. Airtable allows 5 requests/second. Wait and retry.">>
Msg422Prefix == "Invalid request: "
Msg422Fallback == "Unknown error"
MsgGenericPrefix == "Airtable API error: "

\* f"Invalid request: {error.get('message', 'Unknown error')}" for
\* error = response.json().get("error", {})
invalid_request(r) ==
    LET j == response_json(r) IN
    IF ~j.ok THEN j ELSE
    LET error == dict_get(j.val, "error", JDict(<<>>)) IN
    IF ~error.ok THEN error ELSE
    LET m == dict_get(error.val, "message", JStr(Msg422Fallback)) IN
    IF ~m.ok THEN m ELSE
    Raise("AirtableError", <<Msg422Prefix>> \o Format(m.val))

\* AirtableClient._handle_error: Ok(JNull) when it returns (None), else the
\* exception it raises.
handle_error(r) ==
    CASE r.status = 401 -> Raise("AirtableError", Msg401)
      [] r.status = 403 -> Raise("AirtableError", Msg403)
      [] r.status = 404 -> Raise("AirtableError", Msg404)
      [] r.status = 422 -> invalid_request(r)
      [] r.status = 429 -> Raise("AirtableError", Msg429)
      [] OTHER ->
            IF ~is_success(r.status)
            THEN Raise("AirtableError",
                       <<MsgGenericPrefix>> \o Digits(r.status)
                           \o <<" - ", r.body.text>>)
            ELSE Ok(JNull)

\* return response.json().get(key, [])
unwrap_list(r, key) ==
    LET j == response_json(r) IN
    IF ~j.ok THEN j ELSE dict_get(j.val, key, JList(<<>>))

\* return response.json()["records"][0]
unwrap_first_record(r) ==
    LET j == response_json(r) IN
    IF ~j.ok THEN j ELSE
    LET recs == subscript_key(j.val, "records") IN
    IF ~recs.ok THEN recs ELSE subscript_zero(recs.val)

\* return response.json()
unwrap_whole(r) == response_json(r)

\* The request each operation builds.
list_bases_request == Request("GET", <<"meta", "bases">>, <<>>, FALSE, NoBody)
list_tables_request(base_id) ==
    Request("GET", <<"meta", "bases", base_id, "tables">>, <<>>, FALSE, NoBody)
list_records_request(base_id, table, max_records, filter_formula) ==
    Request("GET", <<base_id, table>>,
            (IF max_records.some
                THEN << <<"maxRecords", JNum(max_records.n)>> >> ELSE <<>>)
            \o (IF filter_formula.some
                THEN << <<"filterByFormula", JStr(filter_formula.v)>> >> ELSE <<>>),
            FALSE, NoBody)
\* Variant that puts the fields map itself in the array, without {"fields": ...}.
create_record_payload_bare(fields) ==
    JDict(<< <<"records", JList(<<fields>>)>> >>)
create_record_payload(fields) ==
    JDict(<< <<"records", JList(<< JDict(<< <<"fields", fields>> >>) >>)>> >>)
create_record_request(base_id, table, fields) ==
    Request("POST", <<base_id, table>>, <<>>, TRUE, create_record_payload(fields))
update_record_payload(fields) == JDict(<< <<"fields", fields>> >>)
update_record_request(base_id, table, record_id, fields) ==
    Request("PATCH", <<base_id, table, record_id>>, <<>>, TRUE,
            update_record_payload(fields))

(***************************************************************************)
(* State.                                                                   *)
(***************************************************************************)
VARIABLES
    environ,      \* os.environ.get("AIRTABLE_API_KEY"): str | None
    phase,        \* "new" before __init__, then "ready" or "failed" (it raised)
    api_key,      \* self.api_key
    client,       \* self._client: None or the session it refers to
    created,      \* number of httpx.AsyncClient objects constructed so far
    acloseCalls,  \* per session, how many times aclose() was invoked on it
    pc,           \* per task: "idle", or the coroutine suspended at its await
    held,         \* per task: the session its suspended coroutine uses
    args,         \* per task: the arguments of its suspended coroutine
    request,      \* per task: the request in flight
    sent,         \* per task: requests the current call has issued
    last          \* what the latest step gave a caller: the call it completed
                  \* and its outcome, or NoCall when it completed none

vars == <<environ, phase, api_key, client, created, acloseCalls,
          pc, held, args, request, sent, last>>

Ops == {"list_bases", "list_tables", "list_records", "create_record",
        "update_record"}

\* The arguments of a call; an operation leaves those it does not take unset.
Args(base_id, table, record_id, max_records, filter_formula, fields) ==
    [base_id |-> base_id, table |-> table, max_records |-> max_records,
     filter_formula |-> filter_formula, fields |-> fields,
     record_id |-> record_id]
NoArgs == Args("", "", "", NoneInt, NoneStr, JNull)

Completed(kind, op, t, sess, n, a, req, r, out, arg) ==
    [args |-> a, request |-> req, sent |-> n, kind |-> kind, op |-> op,
     sess |-> sess, out |-> out, arg |-> arg, task |-> t, resp |-> r]
NoCall == Completed("none", "", 0, None, 0, NoArgs, NoRequest, TransportFailure,
                    Ok(JNull), NoneStr)

\* The state before AirtableClient(...) is called, for a given environment.
InitWith(envs) ==
    /\ environ \in envs
    /\ phase = "new"
    /\ api_key = NoneStr
    /\ client = None
    /\ created = 0
    /\ acloseCalls = [s \in Sessions |-> 0]
    /\ pc = [t \in Tasks |-> "idle"]
    /\ held = [t \in Tasks |-> None]
    /\ args = [t \in Tasks |-> NoArgs]
    /\ request = [t \in Tasks |-> NoRequest]
    /\ sent = [t \in Tasks |-> 0]
    /\ last = NoCall

(***************************************************************************)
(* AirtableClient.__init__                                                  *)
(***************************************************************************)
\* self.api_key = api_key or os.environ.get("AIRTABLE_API_KEY")
init_api_key(arg, env) == PyOr(arg, env)
\* Variant that tests `is None` instead of truthiness.
init_raises_none_only(key) == ~key.some

\* if not self.api_key: raise
init_raises(key) == ~Truthy(key)

Construct(arg) ==
    /\ phase = "new"
    /\ LET key == init_api_key(arg, environ) IN
       IF init_raises(key)
       THEN /\ phase' = "failed"
            /\ last' = Completed("raise", "__init__", 0, None, 0, NoArgs, NoRequest,
                                 TransportFailure,
                                 Raise("AirtableError", MsgConfig), arg)
            /\ UNCHANGED <<api_key, client>>
       ELSE /\ phase' = "ready"
            /\ api_key' = key
            /\ client' = None
            /\ last' = Completed("return", "__init__", 0, None, 0, NoArgs, NoRequest,
                                 TransportFailure, Ok(JNull), arg)
    /\ UNCHANGED <<environ, created, acloseCalls, pc, held, args, request, sent>>

(***************************************************************************)
(* AirtableClient._get_client and close                                     *)
(***************************************************************************)
\* Variant without the `is None` test: a session is constructed on every call.
get_client_always_new(c, n) == [client |-> n + 1, created |-> n + 1]

\* _get_client has no await: it runs to completion within the caller's step.
\* Given self._client and the number of sessions constructed, the session it
\* returns (and stores) and the new number constructed.
get_client(c, n) ==
    IF c = None
    THEN [client |-> n + 1, created |-> n + 1]
    ELSE [client |-> c, created |-> n]

\* close() up to its await: `if self._client: await self._client.aclose()`.
\* With no session the call returns at once.
close(t) ==
    /\ phase = "ready"
    /\ pc[t] = "idle"
    /\ IF client # None
       THEN /\ acloseCalls' = [acloseCalls EXCEPT ![client] = @ + 1]
            /\ pc' = [pc EXCEPT ![t] = "close"]
            /\ held' = [held EXCEPT ![t] = client]
            /\ last' = NoCall
       ELSE /\ last' = Completed("return", "close", t, None, 0, NoArgs, NoRequest,
                                 TransportFailure, Ok(JNull), NoneStr)
            /\ UNCHANGED <<acloseCalls, pc, held>>
    /\ UNCHANGED <<environ, phase, api_key, client, created, args, request, sent>>

\* Variant of close_resume that leaves self._client referring to the session.
close_resume_keeps_client(t) ==
    /\ pc[t] = "close"
    /\ pc' = [pc EXCEPT ![t] = "idle"]
    /\ held' = [held EXCEPT ![t] = None]
    /\ last' = Completed("return", "close", t, held[t], 0, NoArgs, NoRequest,
                         TransportFailure, Ok(JNull), NoneStr)
    /\ UNCHANGED <<environ, phase, api_key, client, created, acloseCalls, args,
                   request, sent>>

\* close() after its await: `self._client = None`.
close_resume(t) ==
    /\ pc[t] = "close"
    /\ client' = None
    /\ pc' = [pc EXCEPT ![t] = "idle"]
    /\ held' = [held EXCEPT ![t] = None]
    /\ last' = Completed("return", "close", t, held[t], 0, NoArgs, NoRequest,
                         TransportFailure, Ok(JNull), NoneStr)
    /\ UNCHANGED <<environ, phase, api_key, created, acloseCalls, args, request,
                   sent>>

(***************************************************************************)
(* The five operations.  Each is `client = await self._get_client()`, the   *)
(* request built and handed to the session (Send), the suspension, then     *)
(* `self._handle_error(response)` and the unwrapping (Finish).              *)
(***************************************************************************)
Send(t, op, a, req) ==
    /\ phase = "ready"
    /\ pc[t] = "idle"
    /\ LET g == get_client(client, created) IN
       /\ g.created <= MaxSessions
       /\ client' = g.client
       /\ created' = g.created
       /\ held' = [held EXCEPT ![t] = g.client]
    /\ pc' = [pc EXCEPT ![t] = op]
    /\ args' = [args EXCEPT ![t] = a]
    /\ request' = [request EXCEPT ![t] = req]
    /\ sent' = [sent EXCEPT ![t] = @ + 1]
    /\ last' = NoCall
    /\ UNCHANGED <<environ, phase, api_key, acloseCalls>>

\* What the call gives its caller for response r, `unwrapped` being the
\* return expression evaluated on r.
call_outcome(r, unwrapped) ==
    IF r.fail THEN Raise("TransportError", <<>>)
    ELSE LET h == handle_error(r) IN
         IF ~h.ok THEN h ELSE unwrapped

\* Variant of Finish that sends the request once more after a first failure.
Finish_retry(t, op, r, unwrapped) ==
    /\ pc[t] = op
    /\ LET out == call_outcome(r, unwrapped) IN
       IF ~out.ok /\ sent[t] < 2
       THEN /\ sent' = [sent EXCEPT ![t] = @ + 1]
            /\ last' = NoCall
            /\ UNCHANGED <<pc, held, args, request>>
       ELSE /\ last' = Completed(IF out.ok THEN "return" ELSE "raise", op, t,
                                 held[t], sent[t], args[t], request[t], r, out,
                                 NoneStr)
            /\ pc' = [pc EXCEPT ![t] = "idle"]
            /\ held' = [held EXCEPT ![t] = None]
            /\ args' = [args EXCEPT ![t] = NoArgs]
            /\ request' = [request EXCEPT ![t] = NoRequest]
            /\ sent' = [sent EXCEPT ![t] = 0]
    /\ UNCHANGED <<environ, phase, api_key, client, created, acloseCalls>>

Finish(t, op, r, unwrapped) ==
    /\ pc[t] = op
    /\ LET out == call_outcome(r, unwrapped) IN
       last' = Completed(IF out.ok THEN "return" ELSE "raise", op, t, held[t],
                         sent[t], args[t], request[t], r, out, NoneStr)
    /\ pc' = [pc EXCEPT ![t] = "idle"]
    /\ held' = [held EXCEPT ![t] = None]
    /\ args' = [args EXCEPT ![t] = NoArgs]
    /\ request' = [request EXCEPT ![t] = NoRequest]
    /\ sent' = [sent EXCEPT ![t] = 0]
    /\ UNCHANGED <<environ, phase, api_key, client, created, acloseCalls>>

list_bases(t) == Send(t, "list_bases", NoArgs, list_bases_request)
list_bases_resume(t, r) == Finish(t, "list_bases", r, unwrap_list(r, "bases"))

list_tables(t, base_id) ==
    Send(t, "list_tables", Args(base_id, "", "", NoneInt, NoneStr, JNull),
         list_tables_request(base_id))
list_tables_resume(t, r) == Finish(t, "list_tables", r, unwrap_list(r, "tables"))

list_records(t, base_id, table, max_records, filter_formula) ==
    Send(t, "list_records",
         Args(base_id, table, "", max_records, filter_formula, JNull),
         list_records_request(base_id, table, max_records, filter_formula))
list_records_resume(t, r) ==
    Finish(t, "list_records", r, unwrap_list(r, "records"))

create_record(t, base_id, table, fields) ==
    Send(t, "create_record", Args(base_id, table, "", NoneInt, NoneStr, fields),
         create_record_request(base_id, table, fields))
create_record_resume(t, r) ==
    Finish(t, "create_record", r, unwrap_first_record(r))

update_record(t, base_id, table, record_id, fields) ==
    Send(t, "update_record",
         Args(base_id, table, record_id, NoneInt, NoneStr, fields),
         update_record_request(base_id, table, record_id, fields))
update_record_resume(t, r) == Finish(t, "update_record", r, unwrap_whole(r))

(***************************************************************************)
(* Inputs.                                                                  *)
(***************************************************************************)
FieldsA == JDict(<< <<"Name", JStr("New Task")>>, <<"Status", JStr("Pending")>> >>)
FieldsB == JDict(<< <<"Status", JStr("Done")>> >>)
RecordA == JDict(<< <<"id", JStr("recA")>>, <<"fields", FieldsA>> >>)
RecordB == JDict(<< <<"id", JStr("recB")>>, <<"fields", FieldsB>> >>)

BodyText == Body("<html>Bad Gateway</html>", FALSE, JNull)
BodyEmptyText == Body("", FALSE, JNull)
BodyEmptyDict == Body("{}", TRUE, JDict(<<>>))
BodyJsonList == Body("[]", TRUE, JList(<<>>))
BodyErrMessage ==
    Body("{\"error\":{\"type\":\"INVALID_VALUE\",\"message\":\"Field X cannot accept the value\"}}",
         TRUE,
         JDict(<< <<"error", JDict(<< <<"type", JStr("INVALID_VALUE")>>,
                                      <<"message", JStr("Field X cannot accept the value")>> >>)>> >>))
BodyErrNoMessage ==
    Body("{\"error\":{\"type\":\"INVALID_VALUE\"}}", TRUE,
         JDict(<< <<"error", JDict(<< <<"type", JStr("INVALID_VALUE")>> >>)>> >>))
BodyErrString ==
    Body("{\"error\":\"INVALID_REQUEST\"}", TRUE,
         JDict(<< <<"error", JStr("INVALID_REQUEST")>> >>))
BodyErrNull ==
    Body("{\"error\":null}", TRUE, JDict(<< <<"error", JNull>> >>))
BodyBases ==
    Body("{\"bases\":[{\"id\":\"appA\"}]}", TRUE,
         JDict(<< <<"bases", JList(<< JDict(<< <<"id", JStr("appA")>> >>) >>)>> >>))
BodyTables ==
    Body("{\"tables\":[{\"id\":\"tblA\"}]}", TRUE,
         JDict(<< <<"tables", JList(<< JDict(<< <<"id", JStr("tblA")>> >>) >>)>> >>))
BodyRecords0 == Body("{\"records\":[]}", TRUE, JDict(<< <<"records", JList(<<>>)>> >>))
BodyRecords1 ==
    Body("{\"records\":[recA]}", TRUE, JDict(<< <<"records", JList(<<RecordA>>)>> >>))
BodyRecords2 ==
    Body("{\"records\":[recB,recA]}", TRUE,
         JDict(<< <<"records", JList(<<RecordB, RecordA>>)>> >>))
BodyRecordsDict ==
    Body("{\"records\":{}}", TRUE, JDict(<< <<"records", JDict(<<>>)>> >>))
BodyRecord == Body("recA", TRUE, RecordA)

Bodies == {BodyText, BodyEmptyText, BodyEmptyDict, BodyJsonList, BodyErrMessage,
           BodyErrNoMessage, BodyErrString, BodyErrNull, BodyBases, BodyTables,
           BodyRecords0, BodyRecords1, BodyRecords2, BodyRecordsDict, BodyRecord}
Statuses == {100, 200, 201, 204, 299, 300, 301, 400, 401, 403, 404, 409, 422,
             429, 500, 503}

\* The inputs of a run: constructor arguments, environments, call arguments
\* and the responses the network may give.
Inputs(keys, envs, bases, tables, records, maxes, filters, fieldss, resps) ==
    [envs |-> envs, keys |-> keys, bases |-> bases, tables |-> tables,
     records |-> records, maxes |-> maxes, filters |-> filters,
     fieldss |-> fieldss, resps |-> resps]

\* Few inputs, for runs with several tasks in flight.
FewInputs ==
    Inputs({NoneStr, Some("patKEY")}, {NoneStr}, {"appA"}, {"Tasks"}, {"recA"},
           {NoneInt}, {NoneStr}, {FieldsA},
           {Resp(200, BodyRecords1), Resp(500, BodyText), TransportFailure})

\* Many inputs, for runs of one task.
ManyInputs ==
    Inputs({NoneStr, Some(""), Some("patKEY")},
           {NoneStr, Some(""), Some("patENV")},
           {"appA"}, {"Tasks"}, {"recA"},
           {NoneInt, SomeInt(100)}, {NoneStr, Some("{Status}='Done'")},
           {FieldsA, FieldsB, JDict(<<>>)},
           {Resp(st, b) : st \in Statuses, b \in Bodies} \cup {TransportFailure})

(***************************************************************************)
(* Specifications.                                                          *)
(***************************************************************************)
Step(T, D) ==
    \/ \E arg \in D.keys : Construct(arg)
    \/ \E t \in T : close(t)
    \/ \E t \in T : close_resume(t)
    \/ \E t \in T : list_bases(t)
    \/ \E t \in T, b \in D.bases : list_tables(t, b)
    \/ \E t \in T, b \in D.bases, tb \in D.tables, m \in D.maxes, f \in D.filters :
          list_records(t, b, tb, m, f)
    \/ \E t \in T, b \in D.bases, tb \in D.tables, fs \in D.fieldss :
          create_record(t, b, tb, fs)
    \/ \E t \in T, b \in D.bases, tb \in D.tables, rc \in D.records,
          fs \in D.fieldss : update_record(t, b, tb, rc, fs)
    \/ \E t \in T, r \in D.resps : list_bases_resume(t, r)
    \/ \E t \in T, r \in D.resps : list_tables_resume(t, r)
    \/ \E t \in T, r \in D.resps : list_records_resume(t, r)
    \/ \E t \in T, r \in D.resps : create_record_resume(t, r)
    \/ \E t \in T, r \in D.resps : update_record_resume(t, r)

\* Several tasks interleaving on one client.
Init == InitWith(FewInputs.envs)
Next == Step(Tasks, FewInputs)
Spec == Init /\ [][Next]_vars

\* One task calling the client sequentially, over many inputs.
InitSeq == InitWith(ManyInputs.envs)
NextSeq == Step({1}, ManyInputs)
SpecSeq == InitSeq /\ [][NextSeq]_vars

(***************************************************************************)
(* Properties.                                                              *)
(***************************************************************************)
InFlight(t) == pc[t] \in Ops
\* Sessions constructed and not yet closed.
LiveSessions == {s \in 1..created : acloseCalls[s] = 0}
NoCloseYet == \A s \in Sessions : acloseCalls[s] = 0

\* C1: at most one session that has been created and not yet closed exists,
\* and a session is constructed only when self._client is None.
C1_AtMostOneLiveSession ==
    /\ [](Cardinality(LiveSessions) <= 1)
    /\ [][created' # created => client = None]_vars

\* C2: on a client on which aclose() was never invoked, the session
\* constructor has run at most once, and every operation in flight or just
\* completed used that one session, which self._client still refers to.
C2_SingleConstruction ==
    NoCloseYet =>
        /\ created <= 1
        /\ \A t \in Tasks : InFlight(t) => held[t] = 1 /\ client = 1 /\ created = 1
        /\ last.op \in Ops => last.sess = 1 /\ client = 1 /\ created = 1
\* Two operations are in flight together on a client that was never closed.
C2_Witness ==
    /\ NoCloseYet
    /\ \E t, u \in Tasks : t # u /\ InFlight(t) /\ InFlight(u)

\* C3: aclose() is invoked at most once on each session, and when a close()
\* that found a session has completed, that session has been closed.
C3_ClosedExactlyOnce ==
    /\ \A s \in Sessions : acloseCalls[s] <= 1
    /\ (last.op = "close" /\ last.sess # None) => acloseCalls[last.sess] >= 1

\* C4: a close() made when no session exists returns normally, invokes no
\* aclose() and leaves self._client None; right after any close() has
\* completed self._client is None; and an operation started when
\* self._client is None constructs a session nobody has closed and sends its
\* request over it.
C4_CloseTwiceThenReuse ==
    [][ /\ last'.op = "close" => last'.kind = "return" /\ client' = None
        /\ (last'.op = "close" /\ pc[last'.task] = "idle") =>
              /\ client = None
              /\ last'.sess = None
              /\ acloseCalls' = acloseCalls
              /\ created' = created
              /\ pc' = pc
        /\ \A t \in Tasks :
              /\ (pc[t] = "idle" /\ pc'[t] = "close") => client # None
              /\ (pc[t] = "idle" /\ pc'[t] \in Ops /\ client = None) =>
                    /\ created' = created + 1
                    /\ client' = created'
                    /\ held'[t] = created'
                    /\ acloseCalls'[created'] = 0
                    /\ sent'[t] = 1
      ]_vars
\* A close() has just returned without closing anything, the only session
\* ever created having been closed by an earlier close().
C4_Witness ==
    /\ last.op = "close" /\ last.sess = None
    /\ created = 1 /\ acloseCalls[1] = 1 /\ client = None

\* C5: without a credential the constructor raises the configuration error
\* and nothing has been created or sent; when it succeeds the key is
\* non-empty and self._client is None.
C5_ConstructionNeedsCredential ==
    /\ (last.op = "__init__" /\ ~Truthy(last.arg) /\ ~Truthy(environ)) =>
           /\ phase = "failed"
           /\ last.out = Raise("AirtableError", MsgConfig)
    /\ phase = "failed" =>
           /\ last.kind = "raise" /\ last.op = "__init__"
           /\ created = 0 /\ client = None
           /\ \A t \in Tasks : pc[t] = "idle" /\ sent[t] = 0
    /\ phase = "ready" => Truthy(api_key)
    /\ (last.op = "__init__" /\ last.kind = "return") =>
           client = None /\ created = 0 /\ api_key = PyOr(last.arg, environ)
\* The constructor has failed with an empty argument and an empty variable.
C5_Witness ==
    phase = "failed" /\ last.arg = Some("") /\ environ = Some("")

MappedKind(st) ==
    CASE st = 401 -> Msg401[1]
      [] st = 403 -> Msg403[1]
      [] st = 404 -> Msg404[1]
      [] st = 422 -> Msg422Prefix
      [] st = 429 -> Msg429[1]
      [] OTHER -> MsgGenericPrefix

\* C6: for every completed operation that got a response: a 2xx status makes
\* error normalisation raise nothing; 401, 403, 404, 422 and 429 raise the
\* AirtableError of their kind; any other status raises the generic
\* AirtableError whose message has the status and the raw text; and no
\* non-2xx response gives a normal return.
C6_ErrorNormalisation ==
    (last.op \in Ops /\ ~last.resp.fail) =>
        LET st == last.resp.status
            out == last.out
        IN  /\ is_success(st) => out.exc # "AirtableError"
            /\ ~is_success(st) =>
                  /\ ~out.ok /\ last.kind = "raise"
                  /\ out.exc = "AirtableError"
                  /\ Len(out.msg) > 0
                  /\ out.msg[1] = MappedKind(st)
            /\ (~is_success(st) /\ st \notin {401, 403, 404, 422, 429}) =>
                  /\ Contains(out.msg, Digits(st))
                  /\ Contains(out.msg, <<last.resp.body.text>>)

\* The body carries error.message.
HasNestedMessage(b) ==
    /\ b.is_json /\ b.json.t = "dict" /\ HasKey(b.json, "error")
    /\ Lookup(b.json, "error").t = "dict"
    /\ HasKey(Lookup(b.json, "error"), "message")
NestedMessage(b) == Lookup(Lookup(b.json, "error"), "message")

\* C7: a 422 response raises the validation AirtableError, with the nested
\* error message verbatim when the body has one and the fallback otherwise.
C7_ValidationMessage ==
    (last.op \in Ops /\ ~last.resp.fail /\ last.resp.status = 422) =>
        /\ last.out.exc = "AirtableError"
        /\ last.out.msg =
              <<Msg422Prefix,
                IF HasNestedMessage(last.resp.body)
                THEN NestedMessage(last.resp.body).s ELSE Msg422Fallback>>

\* C8: a call has issued exactly one request while it is in flight and when
\* it completes, and a transport failure or a non-2xx status is raised to the
\* caller.
C8_OneRequestPerCall ==
    /\ \A t \in Tasks : InFlight(t) => sent[t] = 1
    /\ \A t \in Tasks : pc[t] = "idle" => sent[t] = 0
    /\ last.op \in Ops =>
          /\ last.sent = 1
          /\ (last.resp.fail \/ ~is_success(last.resp.status)) =>
                last.kind = "raise" /\ ~last.out.ok
\* A call has failed on a 500 after one request.
C8_Witness ==
    /\ last.op \in Ops /\ ~last.resp.fail /\ last.resp.status = 500
    /\ last.kind = "raise" /\ last.sent = 1

C10_NoUseAfterClose ==
    /\ \A t \in Tasks : InFlight(t) => acloseCalls[held[t]] = 0
    /\ last.op \in Ops => acloseCalls[last.sess] = 0
====
